---- MODULE Spec2Model ----
(***************************************************************************)
(* Model of systemrdl/core/expressions.py: the expression nodes, their     *)
(* type prediction, the two-pass width resolution and value evaluation.    *)
(*                                                                         *)
(* Expression nodes live in a heap (a sequence of node records); a node    *)
(* refers to its operands by heap index.  Python's None is modelled by     *)
(* the integer None (-1) for widths and by 0 for object handles.  The      *)
(* objects a node only points to (compiler, message handler, Antlr         *)
(* contexts and tokens) are positive handles.                              *)
(* Every recursive method takes the heap and returns a record              *)
(*   [h |-> heap after the call, v |-> returned value, d |-> exception]    *)
(* where d = NoDiag means the call returned normally.  msg.fatal() raises, *)
(* so a call that reports a diagnostic returns no value.                   *)
(***************************************************************************)
EXTENDS Integers, Sequences, FiniteSets, TLC

VARIABLES heap, roots, pc, ptype, value, diag

vars == <<heap, roots, pc, ptype, value, diag>>

\* ---------------------------------------------------------------------------
\* Bounds of the model
\* ---------------------------------------------------------------------------
\* largest number of nodes the front end builds for one expression
MaxNodes == 4
\* largest literal value of the operator-level specification
MaxVal == 7
\* largest literal width of the operator-level specification
MaxWidth == 3
\* longest hierarchical path and longest index list of a reference
MaxSegs == 2
MaxIdx == 2

\* ---------------------------------------------------------------------------
\* Python values
\* ---------------------------------------------------------------------------
None == -1

NoDiag == [kind |-> "none", msg |-> "", ctx |-> 0]
\* msg.fatal(text, ctx): reports the diagnostic and raises
Fatal(text, ctx) == [kind |-> "fatal", msg |-> text, ctx |-> ctx]
\* an uncaught Python exception that never reaches the diagnostics port
Crash(exc) == [kind |-> "crash", msg |-> exc, ctx |-> 0]

Ok(h, v) == [h |-> h, v |-> v, d |-> NoDiag]
Raise(h, d) == [h |-> h, v |-> 0, d |-> d]
\* statement sequencing: an exception in r skips the rest
Bind(r, F(_)) == IF r.d # NoDiag THEN r ELSE F(r)

Max(a, b) == IF a >= b THEN a ELSE b

RECURSIVE Pow(_, _)
\* l ** r on non-negative exponents
Pow(l, r) == IF r = 0 THEN 1 ELSE l * Pow(l, r - 1)

\* ~n on Python's unbounded two's-complement integers
BitNot(n) == -n - 1

RECURSIVE BitAnd(_, _)
\* l & r on Python's unbounded two's-complement integers
BitAnd(a, b) ==
    IF a = 0 \/ b = 0 THEN 0
    ELSE IF a = -1 THEN b
    ELSE IF b = -1 THEN a
    ELSE (a % 2) * (b % 2) + 2 * BitAnd(a \div 2, b \div 2)

RECURSIVE BitOr(_, _)
\* l | r
BitOr(a, b) ==
    IF a = 0 THEN b
    ELSE IF b = 0 THEN a
    ELSE IF a = -1 \/ b = -1 THEN -1
    ELSE Max(a % 2, b % 2) + 2 * BitOr(a \div 2, b \div 2)

RECURSIVE BitXor(_, _)
\* l ^ r
BitXor(a, b) ==
    IF a = 0 THEN b
    ELSE IF b = 0 THEN a
    ELSE IF a = -1 THEN BitNot(b)
    ELSE IF b = -1 THEN BitNot(a)
    ELSE ((a + b) % 2) + 2 * BitXor(a \div 2, b \div 2)

\* bool(v) / int(bool)
Truthy(v) == IF v # 0 THEN 1 ELSE 0

\* ---------------------------------------------------------------------------
\* Expression node classes
\* ---------------------------------------------------------------------------
BinaryIntKinds == {"Add", "Sub", "Mult", "Div", "Mod", "BitwiseAnd",
                   "BitwiseOr", "BitwiseXor", "BitwiseXnor"}
UnaryIntKinds == {"UnaryPlus", "UnaryMinus", "BitwiseInvert"}
RelationalKinds == {"Eq", "Neq", "Lt", "Gt", "Leq", "Geq"}
ReductionKinds == {"AndReduce", "NandReduce", "OrReduce", "NorReduce",
                   "XorReduce", "XnorReduce", "BoolNot"}
BoolKinds == {"BoolAnd", "BoolOr"}
ExpShiftKinds == {"Exponent", "LShift", "RShift"}

NumT == {"int", "bool"}

\* the param member of a node that is no ParameterRef
NoParam == [name |-> "", param_type |-> "", expr |-> 0]

\* Expr.__init__ plus the subclass constructor: a fresh node
Node(kind, op, val, width, cast_width, ctx) ==
    [kind |-> kind, op |-> op, val |-> val, width |-> width,
     cast_width |-> cast_width, expr_eval_width |-> None, err_ctx |-> ctx,
     ref_inst |-> 0, uplevels_to_ref |-> 0, ref_elements |-> <<>>,
     compiler |-> 1, msg |-> 1, param |-> NoParam]

SetWidth(h, n, w) == [h EXCEPT ![n].expr_eval_width = w]

\* trunc with the mask off by one: v & (1 << expr_eval_width)
Mut_trunc(h, n, v) ==
    IF h[n].expr_eval_width = None THEN Raise(h, Crash("TypeError"))
    ELSE Ok(h, BitAnd(v, Pow(2, h[n].expr_eval_width)))

\* Expr.trunc: v & ((1 << expr_eval_width) - 1); shifting by None raises
trunc(h, n, v) ==
    IF h[n].expr_eval_width = None THEN Raise(h, Crash("TypeError"))
    ELSE Ok(h, BitAnd(v, Pow(2, h[n].expr_eval_width) - 1))

\* ---------------------------------------------------------------------------
\* Component Tree Port:
\*   top (addrmap) -> rf[4][8] (regfile array) -> r (reg)
\*                 -> sig (signal, not addressable)
\* ---------------------------------------------------------------------------
Components ==
    << [name |-> "top", type |-> "Addrmap", addressable |-> TRUE,
        is_array |-> FALSE, array_dimensions |-> <<>>, children |-> {2, 4}],
       [name |-> "rf", type |-> "Regfile", addressable |-> TRUE,
        is_array |-> TRUE, array_dimensions |-> <<4, 8>>, children |-> {3}],
       [name |-> "r", type |-> "Reg", addressable |-> TRUE,
        is_array |-> FALSE, array_dimensions |-> <<>>, children |-> {}],
       [name |-> "sig", type |-> "Signal", addressable |-> FALSE,
        is_array |-> FALSE, array_dimensions |-> <<>>, children |-> {}] >>

\* Component.get_child_by_name: the child's handle, or 0 (None) when absent
get_child_by_name(c, name) ==
    IF \E k \in Components[c].children : Components[k].name = name
    THEN CHOOSE k \in Components[c].children : Components[k].name = name
    ELSE 0

\* issubclass(type(inst), comp.AddressableComponent) and inst.is_array
IsAddressableArray(c) == Components[c].addressable /\ Components[c].is_array

\* ---------------------------------------------------------------------------
\* predict_type
\* ---------------------------------------------------------------------------
RECURSIVE predict_type(_, _)
RECURSIVE predict_suffixes(_, _, _)
RECURSIVE predict_ref(_, _, _, _)

\* one "if(self.op[i].predict_type() not in [int, bool]): fatal" statement
CheckNumeric(h, n, i, text) ==
    Bind(predict_type(h, h[n].op[i]), LAMBDA r:
        IF r.v \notin NumT THEN Raise(h, Fatal(text, h[n].err_ctx))
        ELSE Ok(h, 0))

\* the predict_type shared by the two-operand integer classes
PredictTwo(h, n, ltext, rtext, t) ==
    Bind(CheckNumeric(h, n, 1, ltext), LAMBDA a:
    Bind(CheckNumeric(h, n, 2, rtext), LAMBDA b:
        Ok(h, t)))

\* the predict_type shared by the one-operand classes
PredictOne(h, n, text, t) ==
    Bind(CheckNumeric(h, n, 1, text), LAMBDA a: Ok(h, t))

\* TernaryExpr.predict_type
PredictTernary(h, n) ==
    Bind(CheckNumeric(h, n, 1,
         "Conditional operand of expression is not a compatible boolean type"),
         LAMBDA a:
    Bind(predict_type(h, h[n].op[2]), LAMBDA tj:
    Bind(predict_type(h, h[n].op[3]), LAMBDA tk:
        IF tj.v \in NumT /\ tk.v \in NumT THEN Ok(h, "int")
        ELSE IF tj.v # tk.v
        THEN Raise(h, Fatal(
            "True/False results of ternary conditional are not compatible types",
            h[n].err_ctx))
        ELSE Ok(h, tj.v))))

\* WidthCast.predict_type
PredictWidthCast(h, n) ==
    Bind(IF h[n].cast_width = None
         THEN CheckNumeric(h, n, 2,
              "Width operand of cast expression is not a compatible numeric type")
         ELSE Ok(h, 0), LAMBDA a:
    Bind(CheckNumeric(h, n, 1,
         "Value operand of cast expression cannot be cast to an integer"),
         LAMBDA b:
        Ok(h, "int")))

\* "for array_suffix in array_suffixes: array_suffix.predict_type()"
predict_suffixes(h, sfx, i) ==
    IF i > Len(sfx) THEN Ok(h, 0)
    ELSE Bind(predict_type(h, sfx[i]), LAMBDA r: predict_suffixes(h, sfx, i + 1))

\* the "Check array suffixes" statement of InstRef.predict_type with the
\* branch for indexed non-array components left out
Mut_CheckSuffixCount(h, name_token, array_suffixes, inst) ==
    IF IsAddressableArray(inst)
       /\ Len(array_suffixes) # Len(Components[inst].array_dimensions)
    THEN Raise(h, Fatal(
        "Incompatible number of index dimensions after '"
        \o name_token.text \o "'. Expected "
        \o ToString(Len(Components[inst].array_dimensions))
        \o ", found " \o ToString(Len(array_suffixes)) \o ".",
        name_token.tok))
    ELSE Ok(h, 0)

\* the "Check array suffixes" statement of InstRef.predict_type
CheckSuffixCount(h, name_token, array_suffixes, inst) ==
    IF IsAddressableArray(inst)
    THEN IF Len(array_suffixes) # Len(Components[inst].array_dimensions)
         THEN Raise(h, Fatal(
             "Incompatible number of index dimensions after '"
             \o name_token.text \o "'. Expected "
             \o ToString(Len(Components[inst].array_dimensions))
             \o ", found " \o ToString(Len(array_suffixes)) \o ".",
             name_token.tok))
         ELSE Ok(h, 0)
    ELSE IF Len(array_suffixes) # 0
    THEN Raise(h, Fatal("Unable to index non-array component '"
                        \o name_token.text \o "'", name_token.tok))
    ELSE Ok(h, 0)

\* InstRef.predict_type: the loop over ref_elements from segment i on
predict_ref(h, n, i, current_inst) ==
    IF i > Len(h[n].ref_elements) THEN Ok(h, Components[current_inst].type)
    ELSE LET name_token == h[n].ref_elements[i].name_token
             array_suffixes == h[n].ref_elements[i].array_suffixes
             name == name_token.text
             inst == get_child_by_name(current_inst, name)
         IN IF inst = 0
            THEN Raise(h, Fatal("Could not resolve hierarchical reference to '"
                                \o name \o "'", name_token.tok))
            ELSE Bind(predict_suffixes(h, array_suffixes, 1), LAMBDA r:
                 Bind(CheckSuffixCount(h, name_token, array_suffixes, inst),
                      LAMBDA c: predict_ref(h, n, i + 1, inst)))

predict_type(h, n) ==
    LET k == h[n].kind IN
    CASE k = "IntLiteral" -> Ok(h, "int")
      [] k = "StringLiteral" -> Ok(h, "str")
      [] k \in BinaryIntKinds \cup ExpShiftKinds ->
            PredictTwo(h, n,
                "Left operand of expression is not a compatible numeric type",
                "Right operand of expression is not a compatible numeric type",
                "int")
      [] k \in RelationalKinds ->
            PredictTwo(h, n,
                "Left operand of expression is not a compatible numeric type",
                "Right operand of expression is not a compatible numeric type",
                "bool")
      [] k \in BoolKinds ->
            PredictTwo(h, n,
                "Left operand of expression is not a compatible boolean type",
                "Right operand of expression is not a compatible boolean type",
                "bool")
      [] k \in UnaryIntKinds \cup ReductionKinds ->
            PredictOne(h, n,
                "Operand of expression is not a compatible numeric type", "int")
      [] k = "BoolCast" ->
            PredictOne(h, n,
                "Value operand of cast expression cannot be cast to a boolean",
                "bool")
      [] k = "TernaryExpr" -> PredictTernary(h, n)
      [] k = "WidthCast" -> PredictWidthCast(h, n)
      [] k = "InstRef" -> predict_ref(h, n, 1, h[n].ref_inst)
      [] k = "ParameterRef" -> Ok(h, h[n].param.param_type)

\* ---------------------------------------------------------------------------
\* Width resolution
\* ---------------------------------------------------------------------------
RECURSIVE get_min_eval_width(_, _)
RECURSIVE propagate_eval_width(_, _, _)
RECURSIVE resolve_expr_width(_, _)
RECURSIVE get_value(_, _)
RECURSIVE MinWidthLoop(_, _, _)
RECURSIVE PropagateLoop(_, _, _, _)
RECURSIVE ResolveSuffixes(_, _, _)
RECURSIVE ResolveRefElements(_, _, _)

\* classes that inherit Expr.propagate_eval_width
DefaultPropagateKinds ==
    {"IntLiteral", "StringLiteral"} \cup BinaryIntKinds \cup UnaryIntKinds
\* classes whose propagate_eval_width is "self.resolve_expr_width()"
NewContextKinds ==
    RelationalKinds \cup ReductionKinds
    \cup {"BoolCast", "WidthCast", "InstRef", "ParameterRef"}
\* classes that inherit Expr.resolve_expr_width
DefaultResolveKinds ==
    DefaultPropagateKinds \cup RelationalKinds \cup ReductionKinds \cup {"BoolCast"}

\* Expr.resolve_expr_width, first loop: fold the operands' minimum widths
MinWidthLoop(h, n, i) ==
    IF i > Len(h[n].op) THEN Ok(h, 0)
    ELSE Bind(get_min_eval_width(h, h[n].op[i]), LAMBDA r:
         MinWidthLoop(SetWidth(r.h, n, Max(r.h[n].expr_eval_width, r.v)),
                      n, i + 1))

\* "for op in self.op: op.propagate_eval_width(w)"
PropagateLoop(h, n, i, w) ==
    IF i > Len(h[n].op) THEN Ok(h, 0)
    ELSE Bind(propagate_eval_width(h, h[n].op[i], w), LAMBDA r:
         PropagateLoop(r.h, n, i + 1, w))

\* Expr.resolve_expr_width propagating width 1 instead of the folded width
Mut_BaseResolve(h, n) ==
    Bind(MinWidthLoop(SetWidth(h, n, 1), n, 1), LAMBDA r:
         PropagateLoop(r.h, n, 1, 1))

\* Expr.resolve_expr_width
BaseResolve(h, n) ==
    Bind(MinWidthLoop(SetWidth(h, n, 1), n, 1), LAMBDA r:
         PropagateLoop(r.h, n, 1, r.h[n].expr_eval_width))

\* Expr.propagate_eval_width
BasePropagate(h, n, w) == PropagateLoop(SetWidth(h, n, w), n, 1, w)

\* the check of ParameterRef with a message that lacks the parameter's name
Mut_CheckAssigned(h, n) ==
    IF h[n].param.expr = 0
    THEN Raise(h, Fatal("Value for parameter '%s' was never assigned",
                        h[n].err_ctx))
    ELSE Ok(h, 0)

\* "if(self.param.expr is None): self.msg.fatal(...)" of ParameterRef
CheckAssigned(h, n) ==
    IF h[n].param.expr = 0
    THEN Raise(h, Fatal("Value for parameter '" \o h[n].param.name
                        \o "' was never assigned", h[n].err_ctx))
    ELSE Ok(h, 0)

\* ParameterRef.resolve_expr_width
ResolveParameterRef(h, n) ==
    Bind(CheckAssigned(h, n), LAMBDA c:
         BaseResolve([c.h EXCEPT ![n].op = <<h[n].param.expr>>], n))

\* WidthCast.resolve_cast_width
resolve_cast_width(h, n) ==
    IF h[n].cast_width = None
    THEN Bind(resolve_expr_width(h, h[n].op[2]), LAMBDA a:
         Bind(get_value(a.h, h[n].op[2]), LAMBDA b:
              Ok([b.h EXCEPT ![n].cast_width = b.v], 0)))
    ELSE Ok(h, 0)

\* _ExpShiftExpr.resolve_expr_width replaced by the inherited
\* Expr.resolve_expr_width, which folds both operands into the width
Mut_ResolveExpShift(h, n) ==
    Bind(MinWidthLoop(SetWidth(h, n, 1), n, 1), LAMBDA r:
         PropagateLoop(r.h, n, 1, r.h[n].expr_eval_width))

\* _ExpShiftExpr.resolve_expr_width
ResolveExpShift(h, n) ==
    Bind(get_min_eval_width(h, h[n].op[1]), LAMBDA a:
         propagate_eval_width(SetWidth(a.h, n, a.v), h[n].op[1], a.v))

\* TernaryExpr.resolve_expr_width with the condition folded into the width
Mut_ResolveTernary(h, n) ==
    Bind(get_min_eval_width(h, h[n].op[1]), LAMBDA wi:
    Bind(get_min_eval_width(wi.h, h[n].op[2]), LAMBDA wj:
    Bind(get_min_eval_width(wj.h, h[n].op[3]), LAMBDA wk:
         LET w == Max(Max(1, wi.v), Max(wj.v, wk.v)) IN
         Bind(propagate_eval_width(SetWidth(wk.h, n, w), h[n].op[2], w), LAMBDA a:
              propagate_eval_width(a.h, h[n].op[3], w)))))

\* TernaryExpr.resolve_expr_width
ResolveTernary(h, n) ==
    Bind(get_min_eval_width(h, h[n].op[2]), LAMBDA wj:
    Bind(get_min_eval_width(wj.h, h[n].op[3]), LAMBDA wk:
         LET w == Max(1, Max(wj.v, wk.v)) IN
         Bind(propagate_eval_width(SetWidth(wk.h, n, w), h[n].op[2], w), LAMBDA a:
              propagate_eval_width(a.h, h[n].op[3], w))))

\* WidthCast.resolve_expr_width
ResolveWidthCast(h, n) ==
    Bind(resolve_cast_width(h, n), LAMBDA a:
    Bind(get_min_eval_width(SetWidth(a.h, n, a.h[n].cast_width), h[n].op[1]),
         LAMBDA b:
         LET w == Max(b.h[n].expr_eval_width, b.v) IN
         propagate_eval_width(SetWidth(b.h, n, w), h[n].op[1], w)))

\* "for array_suffix in array_suffixes: array_suffix.resolve_expr_width()"
ResolveSuffixes(h, sfx, i) ==
    IF i > Len(sfx) THEN Ok(h, 0)
    ELSE Bind(resolve_expr_width(h, sfx[i]), LAMBDA r:
         ResolveSuffixes(r.h, sfx, i + 1))

\* InstRef.resolve_expr_width
ResolveRefElements(h, n, i) ==
    IF i > Len(h[n].ref_elements) THEN Ok(h, 0)
    ELSE Bind(ResolveSuffixes(h, h[n].ref_elements[i].array_suffixes, 1),
              LAMBDA r: ResolveRefElements(r.h, n, i + 1))

resolve_expr_width(h, n) ==
    LET k == h[n].kind IN
    CASE k \in DefaultResolveKinds -> BaseResolve(h, n)
      [] k \in BoolKinds -> Ok(h, 0)
      [] k \in ExpShiftKinds -> ResolveExpShift(h, n)
      [] k = "TernaryExpr" -> ResolveTernary(h, n)
      [] k = "WidthCast" -> ResolveWidthCast(h, n)
      [] k = "InstRef" -> ResolveRefElements(h, n, 1)
      [] k = "ParameterRef" -> ResolveParameterRef(h, n)

get_min_eval_width(h, n) ==
    LET k == h[n].kind IN
    CASE k = "IntLiteral" -> Ok(h, h[n].width)
      [] k = "StringLiteral" -> Ok(h, 1)
      [] k \in BinaryIntKinds ->
            Bind(get_min_eval_width(h, h[n].op[1]), LAMBDA a:
            Bind(get_min_eval_width(a.h, h[n].op[2]), LAMBDA b:
                 Ok(b.h, Max(a.v, b.v))))
      [] k \in UnaryIntKinds \cup ExpShiftKinds ->
            get_min_eval_width(h, h[n].op[1])
      [] k \in RelationalKinds \cup ReductionKinds \cup BoolKinds
               \cup {"BoolCast", "InstRef"} -> Ok(h, 1)
      [] k = "TernaryExpr" ->
            Bind(get_min_eval_width(h, h[n].op[2]), LAMBDA a:
            Bind(get_min_eval_width(a.h, h[n].op[3]), LAMBDA b:
                 Ok(b.h, Max(a.v, b.v))))
      [] k = "WidthCast" ->
            Bind(resolve_cast_width(h, n), LAMBDA a: Ok(a.h, a.h[n].cast_width))
      [] k = "ParameterRef" ->
            Bind(CheckAssigned(h, n), LAMBDA c:
                 get_min_eval_width(c.h, h[n].param.expr))

propagate_eval_width(h, n, w) ==
    LET k == h[n].kind IN
    CASE k \in DefaultPropagateKinds -> BasePropagate(h, n, w)
      [] k \in NewContextKinds -> resolve_expr_width(h, n)
      [] k \in BoolKinds ->
            Bind(resolve_expr_width(h, h[n].op[1]), LAMBDA a:
                 resolve_expr_width(a.h, h[n].op[2]))
      [] k \in ExpShiftKinds ->
            Bind(propagate_eval_width(SetWidth(h, n, w), h[n].op[1], w), LAMBDA a:
                 resolve_expr_width(a.h, h[n].op[2]))
      [] k = "TernaryExpr" ->
            Bind(propagate_eval_width(SetWidth(h, n, w), h[n].op[2], w), LAMBDA a:
            Bind(propagate_eval_width(a.h, h[n].op[3], w), LAMBDA b:
                 resolve_expr_width(b.h, h[n].op[1])))

\* ---------------------------------------------------------------------------
\* get_value
\* ---------------------------------------------------------------------------
RECURSIVE XorFold(_, _)
RECURSIVE SuffixValues(_, _, _)
RECURSIVE CheckRanges(_, _, _, _)
RECURSIVE RefValue(_, _, _, _, _)

\* get_ops of the two-operand classes: <<l, r>>, left operand first
get_ops(h, n) ==
    Bind(get_value(h, h[n].op[1]), LAMBDA l:
    Bind(get_value(l.h, h[n].op[2]), LAMBDA r:
         Ok(r.h, <<l.v, r.v>>)))

\* the native Python operator of each _BinaryIntExpr subclass
BinaryNative(k, l, r) ==
    CASE k = "Add" -> l + r
      [] k = "Sub" -> l - r
      [] k = "Mult" -> l * r
      [] k = "Div" -> l \div r
      [] k = "Mod" -> l % r
      [] k = "BitwiseAnd" -> BitAnd(l, r)
      [] k = "BitwiseOr" -> BitOr(l, r)
      [] k = "BitwiseXor" -> BitXor(l, r)
      [] k = "BitwiseXnor" -> BitXor(l, BitNot(r))

\* the zero guard with Mod's message copied from Div
Mut_ZeroCheck(h, n, r) ==
    IF h[n].kind \in {"Div", "Mod"} /\ r = 0
    THEN Raise(h, Fatal("Division by zero", h[n].err_ctx))
    ELSE Ok(h, 0)

\* the "if(r == 0): self.msg.fatal(...)" guard of Div and Mod
ZeroCheck(h, n, r) ==
    IF h[n].kind = "Div" /\ r = 0
    THEN Raise(h, Fatal("Division by zero", h[n].err_ctx))
    ELSE IF h[n].kind = "Mod" /\ r = 0
    THEN Raise(h, Fatal("Modulo by zero", h[n].err_ctx))
    ELSE Ok(h, 0)

\* get_value of Add .. BitwiseXnor
BinaryValue(h, n) ==
    Bind(get_ops(h, n), LAMBDA o:
    Bind(ZeroCheck(o.h, n, o.v[2]), LAMBDA z:
         trunc(o.h, n, BinaryNative(h[n].kind, o.v[1], o.v[2]))))

\* the native Python operator of each _UnaryIntExpr subclass
UnaryNative(k, v) ==
    CASE k = "UnaryPlus" -> v
      [] k = "UnaryMinus" -> -v
      [] k = "BitwiseInvert" -> BitNot(v)

\* get_value of UnaryPlus, UnaryMinus, BitwiseInvert
UnaryValue(h, n) ==
    Bind(get_value(h, h[n].op[1]), LAMBDA a:
         trunc(a.h, n, UnaryNative(h[n].kind, a.v)))

\* the comparison of each _RelationalExpr subclass, as int(bool)
RelationalNative(k, l, r) ==
    LET b == CASE k = "Eq" -> l = r
               [] k = "Neq" -> l # r
               [] k = "Lt" -> l < r
               [] k = "Gt" -> l > r
               [] k = "Leq" -> l <= r
               [] k = "Geq" -> l >= r
    IN IF b THEN 1 ELSE 0

\* get_value of Eq .. Geq
RelationalValue(h, n) ==
    Bind(get_ops(h, n), LAMBDA o:
         Ok(o.h, RelationalNative(h[n].kind, o.v[1], o.v[2])))

\* the "while(n)" loop of XorReduce / XnorReduce, started with v
XorFold(n, v) ==
    IF n = 0 THEN v
    ELSE XorFold(n \div 2, IF n % 2 = 1 THEN 1 - v ELSE v)

\* AndReduce.get_value
AndReduceValue(h, n) ==
    Bind(get_value(h, h[n].op[1]), LAMBDA a:
    Bind(trunc(a.h, n, BitNot(a.v)), LAMBDA t:
         Ok(t.h, IF t.v = 0 THEN 1 ELSE 0)))

\* NandReduce.get_value
NandReduceValue(h, n) ==
    Bind(get_value(h, h[n].op[1]), LAMBDA a:
         Ok(a.h, IF a.v # 0 THEN 1 ELSE 0))

\* OrReduce.get_value
OrReduceValue(h, n) ==
    Bind(get_value(h, h[n].op[1]), LAMBDA a:
         Ok(a.h, IF a.v # 0 THEN 1 ELSE 0))

\* NorReduce.get_value
NorReduceValue(h, n) ==
    Bind(get_value(h, h[n].op[1]), LAMBDA a:
         Ok(a.h, IF a.v = 0 THEN 1 ELSE 0))

\* XorReduce.get_value
XorReduceValue(h, n) ==
    Bind(get_value(h, h[n].op[1]), LAMBDA a: Ok(a.h, XorFold(a.v, 0)))

\* XnorReduce.get_value started at 0 like XorReduce
Mut_XnorReduceValue(h, n) ==
    Bind(get_value(h, h[n].op[1]), LAMBDA a: Ok(a.h, XorFold(a.v, 0)))

\* XnorReduce.get_value
XnorReduceValue(h, n) ==
    Bind(get_value(h, h[n].op[1]), LAMBDA a: Ok(a.h, XorFold(a.v, 1)))

\* BoolNot.get_value negating the operand's value
Mut_BoolNotValue(h, n) ==
    Bind(get_value(h, h[n].op[1]), LAMBDA a: Ok(a.h, 1 - Truthy(a.v)))

\* BoolNot.get_value: "not self.op[0]" negates the node object, which is truthy
BoolNotValue(h, n) == Ok(h, 0)

\* get_value of BoolAnd / BoolOr: both operands are evaluated by get_ops
BoolValue(h, n) ==
    Bind(get_ops(h, n), LAMBDA o:
         LET l == Truthy(o.v[1])
             r == Truthy(o.v[2])
         IN Ok(o.h, IF h[n].kind = "BoolAnd"
                    THEN (IF l = 1 THEN r ELSE l)
                    ELSE (IF l = 1 THEN l ELSE r)))

\* the native Python operator of each _ExpShiftExpr subclass
ExpShiftNative(k, l, r) ==
    CASE k = "Exponent" -> Pow(l, r)
      [] k = "LShift" -> l * Pow(2, r)
      [] k = "RShift" -> l \div Pow(2, r)

\* get_value of Exponent, LShift, RShift
ExpShiftValue(h, n) ==
    Bind(get_ops(h, n), LAMBDA o:
         trunc(o.h, n, ExpShiftNative(h[n].kind, o.v[1], o.v[2])))

\* TernaryExpr.get_value: all three operands are evaluated
TernaryValue(h, n) ==
    Bind(get_value(h, h[n].op[1]), LAMBDA i:
    Bind(get_value(i.h, h[n].op[2]), LAMBDA j:
    Bind(get_value(j.h, h[n].op[3]), LAMBDA k:
         Ok(k.h, IF Truthy(i.v) = 1 THEN j.v ELSE k.v))))

\* WidthCast.get_value truncating to the evaluation width left by resolution
Mut_WidthCastValue(h, n) ==
    Bind(get_value(h, h[n].op[1]), LAMBDA a:
         IF a.h[n].cast_width = 0
         THEN Raise(a.h, Fatal("Cannot cast to width of zero", h[n].err_ctx))
         ELSE trunc(a.h, n, a.v))

\* WidthCast.get_value: truncates to the cast width, which it stores as the
\* node's evaluation width
WidthCastValue(h, n) ==
    Bind(get_value(h, h[n].op[1]), LAMBDA a:
         LET h2 == SetWidth(a.h, n, a.h[n].cast_width) IN
         IF h2[n].expr_eval_width = 0
         THEN Raise(h2, Fatal("Cannot cast to width of zero", h[n].err_ctx))
         ELSE trunc(h2, n, a.v))

\* BoolCast.get_value
BoolCastValue(h, n) ==
    Bind(get_value(h, h[n].op[1]), LAMBDA a: Ok(a.h, Truthy(a.v)))

\* "[ suffix.get_value() for suffix in array_suffixes ]"
SuffixValues(h, sfx, i) ==
    IF i > Len(sfx) THEN Ok(h, <<>>)
    ELSE Bind(get_value(h, sfx[i]), LAMBDA a:
         Bind(SuffixValues(a.h, sfx, i + 1), LAMBDA rest:
              Ok(rest.h, <<a.v>> \o rest.v)))

\* the statement executed for an out-of-range index: the message is
\* formatted, then the argument "array_suffix.err_ctx" is evaluated; the name
\* array_suffix is bound nowhere in get_value (the comprehension variable is
\* "suffix"), so NameError is raised before msg.fatal is entered
ReportIndexOutOfRange(h, dim, idx) == Raise(h, Crash("NameError"))

\* "for i in range(len(idx_list)): if(idx_list[i] >= array_dimensions[i])"
CheckRanges(h, idx_list, dims, i) ==
    IF i > Len(idx_list) THEN Ok(h, 0)
    ELSE IF i > Len(dims) THEN Raise(h, Crash("IndexError"))
    ELSE IF idx_list[i] >= dims[i] THEN ReportIndexOutOfRange(h, dims[i], idx_list[i])
    ELSE CheckRanges(h, idx_list, dims, i + 1)

\* rdltypes.ComponentRef built with the uplevels count dropped
Mut_ComponentRef(uplevels, ref_elements) ==
    [uplevels |-> 0, ref_elements |-> ref_elements]

\* rdltypes.ComponentRef(uplevels, ref_elements)
ComponentRef(uplevels, ref_elements) ==
    [uplevels |-> uplevels, ref_elements |-> ref_elements]

\* InstRef.get_value: the loop over ref_elements from segment i on.  An index
\* list is <<list>>, or <<>> for None.
RefValue(h, n, i, current_inst, resolved) ==
    IF i > Len(h[n].ref_elements)
    THEN Ok(h, ComponentRef(h[n].uplevels_to_ref, resolved))
    ELSE LET name == h[n].ref_elements[i].name_token.text
             array_suffixes == h[n].ref_elements[i].array_suffixes
             inst == get_child_by_name(current_inst, name)
         IN IF inst = 0 THEN Raise(h, Crash("RuntimeError"))
            ELSE IF IsAddressableArray(inst)
            THEN Bind(SuffixValues(h, array_suffixes, 1), LAMBDA s:
                 Bind(CheckRanges(s.h, s.v, Components[inst].array_dimensions, 1),
                      LAMBDA c:
                      RefValue(c.h, n, i + 1, inst,
                          Append(resolved, [name |-> name, idx_list |-> <<s.v>>]))))
            ELSE RefValue(h, n, i + 1, inst,
                     Append(resolved, [name |-> name, idx_list |-> <<>>]))

\* ParameterRef.get_value; None has no get_value attribute
ParameterValue(h, n) ==
    IF h[n].param.expr = 0 THEN Raise(h, Crash("AttributeError"))
    ELSE get_value(h, h[n].param.expr)

get_value(h, n) ==
    LET k == h[n].kind IN
    CASE k \in {"IntLiteral", "StringLiteral"} -> Ok(h, h[n].val)
      [] k \in BinaryIntKinds -> BinaryValue(h, n)
      [] k \in UnaryIntKinds -> UnaryValue(h, n)
      [] k \in RelationalKinds -> RelationalValue(h, n)
      [] k = "AndReduce" -> AndReduceValue(h, n)
      [] k = "NandReduce" -> NandReduceValue(h, n)
      [] k = "OrReduce" -> OrReduceValue(h, n)
      [] k = "NorReduce" -> NorReduceValue(h, n)
      [] k = "XorReduce" -> XorReduceValue(h, n)
      [] k = "XnorReduce" -> XnorReduceValue(h, n)
      [] k = "BoolNot" -> BoolNotValue(h, n)
      [] k \in BoolKinds -> BoolValue(h, n)
      [] k \in ExpShiftKinds -> ExpShiftValue(h, n)
      [] k = "TernaryExpr" -> TernaryValue(h, n)
      [] k = "WidthCast" -> WidthCastValue(h, n)
      [] k = "BoolCast" -> BoolCastValue(h, n)
      [] k = "InstRef" -> RefValue(h, n, 1, h[n].ref_inst, <<>>)
      [] k = "ParameterRef" -> ParameterValue(h, n)

\* ---------------------------------------------------------------------------
\* Deep copy.  A copy of a node is a new heap entry; memo maps the nodes
\* copied so far to their copies.  The result is [h, memo, v].
\* ---------------------------------------------------------------------------
\* copy_by_ref without the source-location handle
Mut_copy_by_ref == {"compiler", "msg"}

\* "copy_by_ref = [...]" of Expr.__deepcopy__ and InstRef.__deepcopy__
copy_by_ref == {"err_ctx", "compiler", "msg"}

\* deepcopy(v, memo) of an object that is not a node: another object (None
\* stays None)
CopyObject(v) == IF v = 0 THEN 0 ELSE v + 1000

\* "if(k in copy_by_ref): setattr(result, k, v) else: ... deepcopy(v, memo)"
\* for the members that hold a handle
CopyMember(k, v) == IF k \in copy_by_ref THEN v ELSE CopyObject(v)

RECURSIVE DeepCopy(_, _, _), DeepCopyList(_, _, _, _), DeepCopyRefElements(_, _, _, _)

\* deepcopy of a list of nodes from position i on
DeepCopyList(h, memo, l, i) ==
    IF i > Len(l) THEN [h |-> h, memo |-> memo, v |-> <<>>]
    ELSE LET a == DeepCopy(h, memo, l[i])
             rest == DeepCopyList(a.h, a.memo, l, i + 1)
         IN [h |-> rest.h, memo |-> rest.memo, v |-> <<a.v>> \o rest.v]

\* InstRef.__deepcopy__, the branch for ref_elements: the name token goes
\* over by reference, the list of index expressions is deep-copied
DeepCopyRefElements(h, memo, elems, i) ==
    IF i > Len(elems) THEN [h |-> h, memo |-> memo, v |-> <<>>]
    ELSE LET new_array_suffixes ==
                 DeepCopyList(h, memo, elems[i].array_suffixes, 1)
             rest == DeepCopyRefElements(new_array_suffixes.h,
                         new_array_suffixes.memo, elems, i + 1)
         IN [h |-> rest.h, memo |-> rest.memo,
             v |-> <<[name_token |-> elems[i].name_token,
                      array_suffixes |-> new_array_suffixes.v]>> \o rest.v]

\* Expr.__deepcopy__ / InstRef.__deepcopy__: the new object is entered in
\* memo first, then the members are copied in the order of their creation.
\* Integers and strings are copied as the same value; ref_inst names an entry
\* of Components, whose copy has the same content; the copy of a parameter
\* has a copy of its expression.
DeepCopy(h, memo, n) ==
    IF n \in DOMAIN memo THEN [h |-> h, memo |-> memo, v |-> memo[n]]
    ELSE LET result == Len(h) + 1
             members == [h[n] EXCEPT
                 !.compiler = CopyMember("compiler", @),
                 !.msg = CopyMember("msg", @),
                 !.err_ctx = CopyMember("err_ctx", @)]
             op == DeepCopyList(Append(h, members), (n :> result) @@ memo,
                                h[n].op, 1)
             ref_elements == DeepCopyRefElements(op.h, op.memo,
                                                 h[n].ref_elements, 1)
             expr == IF h[n].param.expr = 0
                     THEN [h |-> ref_elements.h, memo |-> ref_elements.memo,
                           v |-> 0]
                     ELSE DeepCopy(ref_elements.h, ref_elements.memo,
                                   h[n].param.expr)
         IN [h |-> [expr.h EXCEPT ![result].op = op.v,
                        ![result].ref_elements = ref_elements.v,
                        ![result].param.expr = expr.v],
             memo |-> expr.memo,
             v |-> result]

\* ---------------------------------------------------------------------------
\* The front end: builds one expression bottom-up.  roots holds the finished
\* sub-expressions that have no parent yet, in source order.
\* ---------------------------------------------------------------------------
\* literals the front end produces in the structural specification
LitPool == {<<0, 3>>, <<1, 1>>}
\* fixed cast widths (w_int) the front end produces
CastWidths == {0, 2}

OneOperandKinds == UnaryIntKinds \cup ReductionKinds \cup {"BoolCast"}
TwoOperandKinds ==
    BinaryIntKinds \cup RelationalKinds \cup BoolKinds \cup ExpShiftKinds

Top == roots[Len(roots)]
NewId == Len(heap) + 1

Push(node, arity) ==
    /\ pc = "build"
    /\ Len(heap) < MaxNodes
    /\ Len(roots) >= arity
    /\ heap' = Append(heap, node)
    /\ roots' = Append(SubSeq(roots, 1, Len(roots) - arity), NewId)
    /\ UNCHANGED <<pc, ptype, value, diag>>

\* the last arity roots, which become the operands of the new node
Operands(arity) == SubSeq(roots, Len(roots) - arity + 1, Len(roots))

\* IntLiteral.__init__
NewIntLiteral ==
    \E l \in LitPool :
        Push(Node("IntLiteral", <<>>, l[1], l[2], None, NewId), 0)

\* StringLiteral.__init__
NewStringLiteral == Push(Node("StringLiteral", <<>>, "s", None, None, NewId), 0)

\* _UnaryIntExpr / _ReductionExpr / BoolCast .__init__
NewOneOperand ==
    \E k \in OneOperandKinds :
        Len(roots) >= 1 /\ Push(Node(k, Operands(1), 0, None, None, NewId), 1)

\* _BinaryIntExpr / _RelationalExpr / _BoolExpr / _ExpShiftExpr .__init__
NewTwoOperand ==
    \E k \in TwoOperandKinds :
        Len(roots) >= 2 /\ Push(Node(k, Operands(2), 0, None, None, NewId), 2)

\* TernaryExpr.__init__
NewTernary ==
    Len(roots) >= 3 /\ Push(Node("TernaryExpr", Operands(3), 0, None, None, NewId), 3)

\* WidthCast.__init__ with w_expr = None
NewWidthCastInt ==
    \E c \in CastWidths :
        Len(roots) >= 1 /\ Push(Node("WidthCast", Operands(1), 0, None, c, NewId), 1)

\* WidthCast.__init__ with a width expression
NewWidthCastExpr ==
    Len(roots) >= 2 /\ Push(Node("WidthCast", Operands(2), 0, None, None, NewId), 2)

\* ---------------------------------------------------------------------------
\* The compiler's three calls on the top node of an expression context
\* ---------------------------------------------------------------------------
Finish(r, okpc) ==
    /\ heap' = r.h
    /\ diag' = r.d
    /\ pc' = IF r.d = NoDiag THEN okpc ELSE "failed"

PredictType ==
    /\ pc = "build"
    /\ Len(roots) = 1
    /\ LET r == predict_type(heap, Top) IN
        /\ Finish(r, "typed")
        /\ ptype' = IF r.d = NoDiag THEN r.v ELSE ""
    /\ UNCHANGED <<roots, value>>

ResolveExprWidth ==
    /\ pc = "typed"
    /\ Finish(resolve_expr_width(heap, Top), "resolved")
    /\ value' = <<>>
    /\ UNCHANGED <<roots, ptype>>

GetValue ==
    /\ pc \in {"resolved", "evaluated"}
    /\ LET r == get_value(heap, Top) IN
        /\ Finish(r, "evaluated")
        /\ value' = IF r.d = NoDiag THEN <<r.v>> ELSE <<>>
    /\ UNCHANGED <<roots, ptype>>

Init ==
    /\ heap = <<>>
    /\ roots = <<>>
    /\ pc = "build"
    /\ ptype = ""
    /\ value = <<>>
    /\ diag = NoDiag

Next ==
    \/ NewIntLiteral
    \/ NewStringLiteral
    \/ NewOneOperand
    \/ NewTwoOperand
    \/ NewTernary
    \/ NewWidthCastInt
    \/ NewWidthCastExpr
    \/ PredictType
    \/ ResolveExprWidth
    \/ GetValue

Spec == Init /\ [][Next]_vars

\* ---------------------------------------------------------------------------
\* Operator-level specification: one operator over literal operands drawn
\* from 0..MaxVal x 1..MaxWidth, then the compiler's three calls.
\* ---------------------------------------------------------------------------
OpLiterals == (0..MaxVal) \X (1..MaxWidth)

Lit(l, id) == Node("IntLiteral", <<>>, l[1], l[2], None, id)

InitOps ==
    /\ \E a, b, c \in OpLiterals :
        \/ /\ b = c
           /\ \E k \in TwoOperandKinds :
                heap = <<Lit(a, 1), Lit(b, 2), Node(k, <<1, 2>>, 0, None, None, 3)>>
        \/ /\ a = b /\ b = c
           /\ \E k \in OneOperandKinds :
                heap = <<Lit(a, 1), Node(k, <<1>>, 0, None, None, 2)>>
        \/ /\ a = b /\ b = c
           /\ \E w \in 0..MaxWidth :
                heap = <<Lit(a, 1), Node("WidthCast", <<1>>, 0, None, w, 2)>>
        \/ /\ b = c
           /\ heap = <<Lit(a, 1), Lit(b, 2),
                       Node("WidthCast", <<1, 2>>, 0, None, None, 3)>>
        \/ heap = <<Lit(a, 1), Lit(b, 2), Lit(c, 3),
                    Node("TernaryExpr", <<1, 2, 3>>, 0, None, None, 4)>>
    /\ roots = <<Len(heap)>>
    /\ pc = "build"
    /\ ptype = ""
    /\ value = <<>>
    /\ diag = NoDiag

NextOps == PredictType \/ ResolveExprWidth \/ GetValue

SpecOps == InitOps /\ [][NextOps]_vars

\* ---------------------------------------------------------------------------
\* Reference specification: one InstRef over the component tree, its index
\* expressions literals, then the compiler's three calls.
\* ---------------------------------------------------------------------------
SegNames == {"rf", "r", "sig", "zz"}
IdxVals == {3, 8}

SeqsUpTo(S, n) == UNION {[1..k -> S] : k \in 0..n}

\* the paths the front end produces: (name, index values) per segment
RefPaths == SeqsUpTo([name : SegNames, idx : SeqsUpTo(IdxVals, MaxIdx)], MaxSegs)

RECURSIVE BuildRef(_, _, _, _)
\* the index-expression nodes and the ref_elements list of a path
BuildRef(path, i, lits, elems) ==
    IF i > Len(path) THEN [lits |-> lits, elems |-> elems]
    ELSE LET idx == path[i].idx
             base == Len(lits)
         IN BuildRef(path, i + 1,
                lits \o [j \in 1..Len(idx) |-> Lit(<<idx[j], 4>>, base + j)],
                Append(elems,
                    [name_token |-> [text |-> path[i].name, tok |-> 100 + i],
                     array_suffixes |-> [j \in 1..Len(idx) |-> base + j]]))

\* InstRef.__init__
NewInstRef(ref_inst, uplevels_to_ref, ref_elements) ==
    [Node("InstRef", <<>>, 0, None, None, 0) EXCEPT
        !.ref_inst = ref_inst,
        !.uplevels_to_ref = uplevels_to_ref,
        !.ref_elements = ref_elements]

InitRef ==
    /\ \E path \in RefPaths, up \in {0, 1} :
        LET b == BuildRef(path, 1, <<>>, <<>>) IN
        heap = Append(b.lits, NewInstRef(1, up, b.elems))
    /\ roots = <<Len(heap)>>
    /\ pc = "build"
    /\ ptype = ""
    /\ value = <<>>
    /\ diag = NoDiag

NextRef == PredictType \/ ResolveExprWidth \/ GetValue

SpecRef == InitRef /\ [][NextRef]_vars

\* ---------------------------------------------------------------------------
\* Ternary specification: one ternary whose condition and branches are a
\* literal or one operator over literals, alone or as the left operand of an
\* Add, then the compiler's three calls.
\* ---------------------------------------------------------------------------
Shape(kind, args, cast) == [kind |-> kind, args |-> args, cast |-> cast]

LiteralShapes == {Shape("IntLiteral", <<l>>, None) : l \in LitPool}

BranchShapes ==
    LiteralShapes
    \cup {Shape(k, <<l>>, None) : k \in OneOperandKinds, l \in LitPool}
    \cup {Shape("WidthCast", <<l>>, c) : l \in LitPool, c \in CastWidths}
    \cup {Shape(k, <<a, <<1, 1>>>>, None) : k \in TwoOperandKinds, a \in LitPool}

CondShapes == LiteralShapes \cup {Shape("UnaryMinus", <<l>>, None) : l \in LitPool}

\* the nodes of a shape, placed after base nodes; the last one is its root
SubTree(shape, base) ==
    IF shape.kind = "IntLiteral" THEN <<Lit(shape.args[1], base + 1)>>
    ELSE LET a == Len(shape.args) IN
         [i \in 1..a |-> Lit(shape.args[i], base + i)]
         \o <<Node(shape.kind, [i \in 1..a |-> base + i], 0, None,
                   shape.cast, base + a + 1)>>

InitTern ==
    /\ \E i \in CondShapes, j \in BranchShapes, k \in BranchShapes,
          wrapped \in BOOLEAN :
        LET I == SubTree(i, 0)
            J == SubTree(j, Len(I))
            K == SubTree(k, Len(I) + Len(J))
            t == Len(I) + Len(J) + Len(K) + 1
            T == I \o J \o K
                 \o <<Node("TernaryExpr", <<Len(I), Len(I) + Len(J), t - 1>>,
                           0, None, None, t)>>
        IN heap = IF wrapped
                  THEN T \o <<Lit(<<0, 3>>, t + 1),
                              Node("Add", <<t, t + 1>>, 0, None, None, t + 2)>>
                  ELSE T
    /\ roots = <<Len(heap)>>
    /\ pc = "build"
    /\ ptype = ""
    /\ value = <<>>
    /\ diag = NoDiag

NextTern == PredictType \/ ResolveExprWidth \/ GetValue

SpecTern == InitTern /\ [][NextTern]_vars

\* ---------------------------------------------------------------------------
\* Copy specification: one operator over literals or one hierarchical
\* reference is type-checked, resolved and evaluated; at some point it is
\* deep-copied, and from then on the client changes literals and widths of
\* the copy and resolves the copy.  roots holds the copy first and the
\* original last, so the compiler's calls keep addressing the original.
\* ---------------------------------------------------------------------------
\* well-formed paths into Components
CopyPaths ==
    {<<[name |-> "sig", idx |-> <<>>]>>,
     <<[name |-> "rf", idx |-> <<3, 3>>]>>,
     <<[name |-> "rf", idx |-> <<3, 3>>], [name |-> "r", idx |-> <<>>]>>}

InitCopy ==
    /\ \/ \E shape \in BranchShapes : heap = SubTree(shape, 0)
       \/ \E a \in LitPool :
            heap = <<Lit(a, 1), Lit(<<1, 1>>, 2),
                     Node("WidthCast", <<1, 2>>, 0, None, None, 3)>>
       \/ \E path \in CopyPaths :
            LET b == BuildRef(path, 1, <<>>, <<>>) IN
            heap = Append(b.lits, NewInstRef(1, 1, b.elems))
    /\ roots = <<Len(heap)>>
    /\ pc = "build"
    /\ ptype = ""
    /\ value = <<>>
    /\ diag = NoDiag

CopyRoot == roots[1]

RECURSIVE TreeNodes(_, _)
\* the nodes of the tree rooted at n: operands and index expressions
TreeNodes(h, n) ==
    {n}
    \cup UNION {TreeNodes(h, h[n].op[i]) : i \in 1..Len(h[n].op)}
    \cup UNION {UNION {TreeNodes(h, h[n].ref_elements[i].array_suffixes[j]) :
                         j \in 1..Len(h[n].ref_elements[i].array_suffixes)} :
                  i \in 1..Len(h[n].ref_elements)}

\* copy.deepcopy(expr) on the top node
DeepCopyTree ==
    /\ pc \in {"typed", "resolved", "evaluated"}
    /\ Len(roots) = 1
    /\ LET c == DeepCopy(heap, <<>>, Top) IN
        /\ heap' = c.h
        /\ roots' = <<c.v>> \o roots
    /\ UNCHANGED <<pc, ptype, value, diag>>

\* the client rebinds val and width of a literal of the copy
SetCopyLiteral ==
    /\ Len(roots) = 2
    /\ \E n \in TreeNodes(heap, CopyRoot), l \in {<<0, 1>>, <<MaxVal, MaxWidth>>} :
        /\ heap[n].kind = "IntLiteral"
        /\ heap' = [heap EXCEPT ![n].val = l[1], ![n].width = l[2]]
    /\ UNCHANGED <<roots, pc, ptype, value, diag>>

\* the client rebinds expr_eval_width of a node of the copy
SetCopyEvalWidth ==
    /\ Len(roots) = 2
    /\ \E n \in TreeNodes(heap, CopyRoot), w \in {1, MaxWidth} :
        heap' = SetWidth(heap, n, w)
    /\ UNCHANGED <<roots, pc, ptype, value, diag>>

\* resolve_expr_width() on the top node of the copy
ResolveCopy ==
    /\ Len(roots) = 2
    /\ pc # "failed"
    /\ Finish(resolve_expr_width(heap, CopyRoot), pc)
    /\ UNCHANGED <<roots, ptype, value>>

NextCopy ==
    \/ PredictType
    \/ ResolveExprWidth
    \/ GetValue
    \/ DeepCopyTree
    \/ SetCopyLiteral
    \/ SetCopyEvalWidth
    \/ ResolveCopy

SpecCopy == InitCopy /\ [][NextCopy]_vars

\* ---------------------------------------------------------------------------
\* Re-resolution specification: the structural specification, where the
\* compiler may call resolve_expr_width() on the top node a second time
\* after any number of get_value() calls.
\* ---------------------------------------------------------------------------
\* the second call of resolve_expr_width() on the top node
ResolveAgain ==
    /\ pc \in {"resolved", "evaluated"}
    /\ Finish(resolve_expr_width(heap, Top), "reresolved")
    /\ UNCHANGED <<roots, ptype, value>>

NextAgain ==
    \/ NewIntLiteral
    \/ NewStringLiteral
    \/ NewOneOperand
    \/ NewTwoOperand
    \/ NewTernary
    \/ NewWidthCastInt
    \/ NewWidthCastExpr
    \/ PredictType
    \/ ResolveExprWidth
    \/ GetValue
    \/ ResolveAgain

SpecAgain == Init /\ [][NextAgain]_vars

\* ---------------------------------------------------------------------------
\* Parameter specification: one ParameterRef, whose parameter is unassigned
\* or assigned a literal or one operator over literals, alone or as an
\* operand of one operator.  Besides the compiler's three calls on the top
\* node, a parent's calls of the three width operations are made on the
\* ParameterRef itself.
\* ---------------------------------------------------------------------------
ParamNames == {"P", "Q"}

\* ParameterRef.__init__
NewParameterRef(name, expr, id) ==
    [Node("ParameterRef", <<>>, 0, None, None, id) EXCEPT
        !.param = [name |-> name, param_type |-> "int", expr |-> expr]]

InitParam ==
    /\ \E name \in ParamNames, assigned \in BOOLEAN, shape \in BranchShapes :
        LET E == IF assigned THEN SubTree(shape, 0) ELSE <<>>
            p == Len(E) + 1
            P == E \o <<NewParameterRef(name, Len(E), p)>>
        IN /\ ~assigned => shape = Shape("IntLiteral", <<<<1, 1>>>>, None)
           /\ \/ heap = P
              \/ \E k \in OneOperandKinds :
                    heap = P \o <<Node(k, <<p>>, 0, None, None, p + 1)>>
              \/ \E k \in TwoOperandKinds, left \in BOOLEAN :
                    heap = P \o <<Lit(<<1, 1>>, p + 1),
                                  Node(k, IF left THEN <<p, p + 1>>
                                          ELSE <<p + 1, p>>,
                                       0, None, None, p + 2)>>
    /\ roots = <<Len(heap)>>
    /\ pc = "build"
    /\ ptype = ""
    /\ value = <<>>
    /\ diag = NoDiag

\* the ParameterRef of the expression
PRef == CHOOSE n \in 1..Len(heap) : heap[n].kind = "ParameterRef"

\* resolve_expr_width() called on the ParameterRef
CallResolveExprWidth ==
    /\ pc = "typed"
    /\ Finish(resolve_expr_width(heap, PRef), pc)
    /\ UNCHANGED <<roots, ptype, value>>

\* get_min_eval_width() called on the ParameterRef
CallGetMinEvalWidth ==
    /\ pc = "typed"
    /\ Finish(get_min_eval_width(heap, PRef), pc)
    /\ UNCHANGED <<roots, ptype, value>>

\* propagate_eval_width(w) called on the ParameterRef
CallPropagateEvalWidth ==
    /\ pc = "typed"
    /\ \E w \in 1..MaxWidth : Finish(propagate_eval_width(heap, PRef, w), pc)
    /\ UNCHANGED <<roots, ptype, value>>

NextParam ==
    \/ PredictType
    \/ ResolveExprWidth
    \/ GetValue
    \/ CallResolveExprWidth
    \/ CallGetMinEvalWidth
    \/ CallPropagateEvalWidth

SpecParam == InitParam /\ [][NextParam]_vars

\* ---------------------------------------------------------------------------
\* Properties of the operator-level specification (SpecOps)
\* ---------------------------------------------------------------------------
TopKind == heap[Top].kind
\* the literal operands of the top node
OpL == heap[heap[Top].op[1]]
OpR == heap[heap[Top].op[2]]
Evaluated == pc = "evaluated"
Resolved == pc \in {"resolved", "evaluated"}

\* C1: a binary arithmetic/bitwise node that is the top of its context
\* resolves to width max(left min width, right min width), and its value is
\* the native result on the operand values reduced modulo 2^width; it fails
\* only as Div/Mod with a zero right operand.
C1_BinaryWidthAndValue ==
    TopKind \in BinaryIntKinds =>
        LET wl == get_min_eval_width(heap, heap[Top].op[1]).v
            wr == get_min_eval_width(heap, heap[Top].op[2]).v
            w == IF wl >= wr THEN wl ELSE wr
        IN /\ Resolved => heap[Top].expr_eval_width = w
           /\ Evaluated =>
                value = <<BinaryNative(TopKind, OpL.val, OpR.val) % Pow(2, w)>>
           /\ pc = "failed" => TopKind \in {"Div", "Mod"} /\ OpR.val = 0

\* C1 witness: 5 + 3 at width 3 has been evaluated and wrapped around to 0
C1_Witness ==
    /\ Evaluated /\ TopKind = "Add"
    /\ OpL.val = 5 /\ OpR.val = 3 /\ OpL.width = 3 /\ OpR.width = 3
    /\ heap[Top].expr_eval_width = 3 /\ value = <<0>>

\* C5: Div (Mod) reports 'Division by zero' ('Modulo by zero') at its own
\* location and returns no value exactly when the right operand evaluates to
\* 0; otherwise nothing is reported and Div returns floor(l / r) modulo 2^width.
C5_DivModByZero ==
    (TopKind \in {"Div", "Mod"} /\ pc \in {"evaluated", "failed"}) =>
        LET l == OpL.val
            r == OpR.val
            w == heap[Top].expr_eval_width
        IN IF r = 0
           THEN /\ pc = "failed"
                /\ value = <<>>
                /\ diag = Fatal(IF TopKind = "Div" THEN "Division by zero"
                                ELSE "Modulo by zero", heap[Top].err_ctx)
           ELSE /\ Evaluated
                /\ diag = NoDiag
                /\ TopKind = "Div" =>
                     \E q \in 0..l : /\ q * r <= l /\ l < (q + 1) * r
                                     /\ value = <<q % Pow(2, w)>>

\* C5 witness: a Mod whose right operand is 0 has reported 'Modulo by zero'
C5_Witness ==
    /\ TopKind = "Mod" /\ OpL.val = 7 /\ OpR.val = 0
    /\ pc = "failed" /\ diag.msg = "Modulo by zero"

\* number of set bits among the low w bits of n
PopCount(n, w) == Cardinality({i \in 0..(w - 1) : (n \div Pow(2, i)) % 2 = 1})

\* C7: for an operand value n in [0, 2^w), w the node's resolved width,
\* AndReduce is 1 iff n = 2^w - 1, XorReduce is the parity of n's set bits
\* and XnorReduce is the complement of that parity.
C7_AndXorXnorReduce ==
    (Evaluated /\ TopKind \in {"AndReduce", "XorReduce", "XnorReduce"}) =>
        LET n == OpL.val
            w == heap[Top].expr_eval_width
        IN n < Pow(2, w) =>
            /\ TopKind = "AndReduce" =>
                 value = <<IF n = Pow(2, w) - 1 THEN 1 ELSE 0>>
            /\ TopKind = "XorReduce" => value = <<PopCount(n, w) % 2>>
            /\ TopKind = "XnorReduce" => value = <<1 - (PopCount(n, w) % 2)>>

\* C7 witness: XnorReduce over 0b110 at width 3 evaluated to 1 (even parity)
C7_Witness ==
    /\ Evaluated /\ TopKind = "XnorReduce"
    /\ OpL.val = 6 /\ heap[Top].expr_eval_width = 3 /\ value = <<1>>

\* C8: OrReduce is 1 iff some bit of n is set, NorReduce is its complement,
\* and NandReduce is the complement of AndReduce (0 iff all w bits are 1).
C8_NandOrNorComplements ==
    (Evaluated /\ TopKind \in {"OrReduce", "NorReduce", "NandReduce"}) =>
        LET n == OpL.val
            w == heap[Top].expr_eval_width
            or == IF n # 0 THEN 1 ELSE 0
            and == IF n % Pow(2, w) = Pow(2, w) - 1 THEN 1 ELSE 0
        IN /\ TopKind = "OrReduce" => value = <<or>>
           /\ TopKind = "NorReduce" => value = <<1 - or>>
           /\ TopKind = "NandReduce" => value = <<1 - and>>

\* ---------------------------------------------------------------------------
\* Properties of the structural specification (Spec)
\* ---------------------------------------------------------------------------
NodesOf(kinds) == {n \in 1..Len(heap) : heap[n].kind \in kinds}

\* C2: after predict_type(), one resolve_expr_width() on the top node and
\* get_value(), no node truncates with an undefined evaluation width (no
\* call ends in the TypeError that Expr.trunc raises on a width of None).
C2_NoUndefinedWidthAtTrunc ==
    pc = "failed" => diag # Crash("TypeError")

\* C3: for every exponent/shift node the minimum width is the left
\* operand's, as a context top the resolved width is the left operand's
\* minimum width, and once the node has a width and both operands evaluate,
\* its value is the native l ** r, l << r or l >> r modulo 2^width.
C3_ExpShiftWidthAndValue ==
    pc \in {"typed", "resolved", "evaluated"} =>
        \A n \in NodesOf(ExpShiftKinds) :
            LET l == heap[n].op[1]
                r == heap[n].op[2]
                wl == get_min_eval_width(heap, l)
                w == heap[n].expr_eval_width
                gl == get_value(heap, l)
                gr == get_value(gl.h, r)
                g == get_value(heap, n)
            IN /\ get_min_eval_width(heap, n) = wl
               /\ (pc = "resolved" /\ n = Top) => w = wl.v
               /\ (Resolved /\ w # None /\ gl.d = NoDiag /\ gr.d = NoDiag) =>
                    /\ g.d = NoDiag
                    /\ g.v = ExpShiftNative(heap[n].kind, gl.v, gr.v) % Pow(2, w)

\* C3 witness: the top node (~0 at width 3) << (1 at width 1) resolved to
\* width 3 and evaluated to 14 mod 8 = 6
C3_Witness ==
    /\ Evaluated /\ TopKind = "LShift"
    /\ heap[heap[Top].op[1]].kind = "BitwiseInvert"
    /\ OpR.kind = "IntLiteral" /\ OpR.val = 1 /\ OpR.width = 1
    /\ heap[Top].expr_eval_width = 3
    /\ value = <<6>>

\* classes that store the width their parent propagates to them
ContextSharingKinds ==
    DefaultPropagateKinds \cup ExpShiftKinds \cup {"TernaryExpr"}

RECURSIVE InSubtree(_, _)
\* node a lies in the subtree rooted at node n
InSubtree(a, n) ==
    a = n \/ \E i \in 1..Len(heap[n].op) : InSubtree(a, heap[n].op[i])

\* nodes of width sub-expressions: resolve_cast_width has already called
\* get_value() on them, which overwrites a WidthCast's width by its cast width
WidthExprNodes ==
    {a \in 1..Len(heap) : \E n \in NodesOf({"WidthCast"}) :
        Len(heap[n].op) = 2 /\ InSubtree(a, heap[n].op[2])}

\* C6: a resolved WidthCast with cast width c over a value operand of
\* minimum width m evaluates the operand in a context of width max(c, m);
\* get_value() is the operand's value modulo 2^c when c >= 1 and the fatal
\* 'Cannot cast to width of zero' at the cast's location when c = 0.
C6_WidthCast ==
    pc = "resolved" =>
        \A n \in NodesOf({"WidthCast"}) :
            LET c == heap[n].cast_width
                v == heap[n].op[1]
                m == get_min_eval_width(heap, v).v
                cm == IF c >= m THEN c ELSE m
                gv == get_value(heap, v)
                g == get_value(heap, n)
            IN heap[n].expr_eval_width # None =>
                /\ n \notin WidthExprNodes =>
                    /\ c # None
                    /\ Len(heap[n].op) = 2 =>
                            c = get_value(heap, heap[n].op[2]).v
                    /\ heap[n].expr_eval_width = cm
                    /\ heap[v].kind \in ContextSharingKinds =>
                            heap[v].expr_eval_width = cm
                /\ gv.d = NoDiag =>
                        IF c = 0
                        THEN g.d = Fatal("Cannot cast to width of zero",
                                         heap[n].err_ctx)
                        ELSE g.d = NoDiag /\ g.v = gv.v % Pow(2, c)

\* C6 witness: WidthCast(~(0 at width 3), 2) evaluated its operand at width
\* 3 (value 7) and returned 7 mod 4 = 3
C6_Witness ==
    /\ Evaluated /\ TopKind = "WidthCast" /\ heap[Top].cast_width = 2
    /\ heap[heap[Top].op[1]].kind = "BitwiseInvert"
    /\ heap[heap[Top].op[1]].expr_eval_width = 3
    /\ value = <<3>>

\* ---------------------------------------------------------------------------
\* Properties of the ternary specification (SpecTern)
\* ---------------------------------------------------------------------------
\* the ternary node and its operands
Tern == CHOOSE n \in 1..Len(heap) : heap[n].kind = "TernaryExpr"
TernI == heap[Tern].op[1]
TernJ == heap[Tern].op[2]
TernK == heap[Tern].op[3]
MinW(n) == get_min_eval_width(heap, n).v
Max3(a, b, c) == Max(a, Max(b, c))

\* C4 as stated: after resolution both branches carry the same evaluation
\* width, which for a context top is max(wj, wk), and the condition is not
\* given that width by the ternary.
C4_BranchesSameWidth ==
    pc = "resolved" =>
        /\ heap[TernJ].expr_eval_width = heap[TernK].expr_eval_width
        /\ Tern = Top =>
             heap[TernJ].expr_eval_width = Max(MinW(TernJ), MinW(TernK))

\* the width a node that starts its own context holds after its own
\* resolve_expr_width(): max(1, operand minimum widths), or max(c, m) for a
\* WidthCast
OwnContextWidth(n) ==
    IF heap[n].kind = "WidthCast"
    THEN Max(heap[n].cast_width, MinW(heap[n].op[1]))
    ELSE IF Len(heap[n].op) = 0 THEN 1
    ELSE IF Len(heap[n].op) = 1 THEN Max(1, MinW(heap[n].op[1]))
    ELSE Max3(1, MinW(heap[n].op[1]), MinW(heap[n].op[2]))

\* C4 amended: the ternary's width is max(1, wj, wk) as a context top (the
\* parent's width otherwise); every branch that shares its parent's context
\* carries exactly that width, before and after get_value() and whatever the
\* condition selects; a branch that starts its own context carries its own
\* width instead (a logical and/or none); the condition never receives the
\* ternary's width: it stays unresolved under a context top and is resolved
\* in its own context otherwise.
C4_TernaryContext ==
    Resolved =>
        LET w == heap[Tern].expr_eval_width IN
        /\ w = IF Tern = Top THEN Max3(1, MinW(TernJ), MinW(TernK))
               ELSE heap[Top].expr_eval_width
        /\ \A b \in {TernJ, TernK} :
            /\ heap[b].kind \in ContextSharingKinds =>
                    heap[b].expr_eval_width = w
            /\ (pc = "resolved" /\ heap[b].kind \in NewContextKinds) =>
                    heap[b].expr_eval_width = OwnContextWidth(b)
            /\ heap[b].kind \in BoolKinds => heap[b].expr_eval_width = None
        /\ heap[TernI].expr_eval_width =
                IF Tern = Top THEN None ELSE OwnContextWidth(TernI)
        /\ (Evaluated /\ Tern = Top) =>
             value = <<IF get_value(heap, TernI).v # 0
                       THEN get_value(heap, TernJ).v
                       ELSE get_value(heap, TernK).v>>

\* C4 witness: a top-level ternary over literal branches of widths 1 and 3
\* has been evaluated with both branches at width 3, the condition selecting
\* the narrow one
C4_Witness ==
    /\ Evaluated /\ Tern = Top
    /\ heap[TernJ].kind = "IntLiteral" /\ heap[TernJ].width = 1
    /\ heap[TernK].kind = "IntLiteral" /\ heap[TernK].width = 3
    /\ heap[TernI].kind = "IntLiteral" /\ heap[TernI].val = 1
    /\ heap[TernJ].expr_eval_width = 3 /\ heap[TernK].expr_eval_width = 3
    /\ value = <<1>>

\* ---------------------------------------------------------------------------
\* Properties of the reference specification (SpecRef)
\* ---------------------------------------------------------------------------
RefElems == heap[Top].ref_elements
SegName(i) == RefElems[i].name_token.text
SegCount(i) == Len(RefElems[i].array_suffixes)
\* the evaluated value of index a of segment i (index expressions are literals)
SegIdx(i, a) == heap[RefElems[i].array_suffixes[a]].val

RECURSIVE CompAt(_)
\* the component reached after i path segments, 0 when some name is absent
CompAt(i) ==
    IF i = 0 THEN heap[Top].ref_inst
    ELSE IF CompAt(i - 1) = 0 THEN 0
    ELSE get_child_by_name(CompAt(i - 1), SegName(i))

IsArrayComp(c) == Components[c].addressable /\ Components[c].is_array
Dims(c) == Components[c].array_dimensions

\* the diagnostic the claim expects at segment i, NoDiag when it does not offend
Offence(i) ==
    LET c == CompAt(i)
        tok == RefElems[i].name_token.tok
    IN IF c = 0
       THEN Fatal("Could not resolve hierarchical reference to '"
                  \o SegName(i) \o "'", tok)
       ELSE IF IsArrayComp(c) /\ SegCount(i) # Len(Dims(c))
       THEN Fatal("Incompatible number of index dimensions after '"
                  \o SegName(i) \o "'. Expected " \o ToString(Len(Dims(c)))
                  \o ", found " \o ToString(SegCount(i)) \o ".", tok)
       ELSE IF ~IsArrayComp(c) /\ SegCount(i) > 0
       THEN Fatal("Unable to index non-array component '"
                  \o SegName(i) \o "'", tok)
       ELSE NoDiag

Offending == {i \in 1..Len(RefElems) : Offence(i) # NoDiag}
FirstOffending == CHOOSE i \in Offending : \A j \in Offending : i <= j

\* C9: predict_type() reports exactly the diagnostic of the first offending
\* segment (UnresolvedReference, ArityMismatch or NotIndexable) at that
\* segment's name token and returns no type; with no offending segment it
\* reports nothing and returns the type of the last component.
C9_PredictTypeDiagnostics ==
    pc # "build" =>
        IF Offending # {}
        THEN pc = "failed" /\ ptype = "" /\ diag = Offence(FirstOffending)
        ELSE /\ ptype = Components[CompAt(Len(RefElems))].type
             /\ pc = "typed" => diag = NoDiag

\* C9 witness: one index on the two-dimensional array rf was rejected with
\* the arity diagnostic at rf's name token
C9_Witness ==
    /\ pc = "failed" /\ Len(RefElems) = 1 /\ SegName(1) = "rf" /\ SegCount(1) = 1
    /\ diag = Fatal("Incompatible number of index dimensions after 'rf'. Expected 2, found 1.",
                    RefElems[1].name_token.tok)

\* the (segment, axis) pairs whose evaluated index is not below the axis size
OutOfRange ==
    {p \in (1..Len(RefElems)) \X (1..MaxIdx + 1) :
        /\ IsArrayComp(CompAt(p[1]))
        /\ p[2] <= SegCount(p[1])
        /\ SegIdx(p[1], p[2]) >= Dims(CompAt(p[1]))[p[2]]}
FirstOutOfRange ==
    CHOOSE p \in OutOfRange : \A q \in OutOfRange :
        p[1] < q[1] \/ (p[1] = q[1] /\ p[2] <= q[2])

\* C10: after a successful predict_type() and resolution, get_value() ends
\* in a fatal diagnostic carrying the valid range and the offending value,
\* without a result, whenever some index is out of range, and reports
\* nothing when every index is within its axis.
C10_IndexOutOfRangeDiagnostic ==
    (Offending = {} /\ pc \in {"evaluated", "failed"}) =>
        IF OutOfRange # {}
        THEN LET p == FirstOutOfRange IN
             /\ pc = "failed" /\ value = <<>>
             /\ diag.kind = "fatal"
             /\ diag.msg = "Array index out of range. Expected 0-"
                    \o ToString(Dims(CompAt(p[1]))[p[2]] - 1) \o ", got "
                    \o ToString(SegIdx(p[1], p[2])) \o "."
        ELSE pc = "evaluated" /\ diag = NoDiag

\* C11: a successful InstRef.get_value() returns a reference with the
\* node's uplevels count and one (name, index list) entry per segment, in
\* order; the index list is None iff the component is not an addressable
\* array, and otherwise the evaluated indices, one per dimension.
C11_ComponentRefResult ==
    pc = "evaluated" =>
        LET cref == value[1] IN
        /\ cref.uplevels = heap[Top].uplevels_to_ref
        /\ Len(cref.ref_elements) = Len(RefElems)
        /\ \A i \in 1..Len(RefElems) :
            LET e == cref.ref_elements[i] IN
            /\ e.name = SegName(i)
            /\ (e.idx_list = <<>>) <=> ~IsArrayComp(CompAt(i))
            /\ IsArrayComp(CompAt(i)) =>
                /\ e.idx_list = <<[a \in 1..SegCount(i) |-> SegIdx(i, a)]>>
                /\ Len(e.idx_list[1]) = Len(Dims(CompAt(i)))

\* C11 witness: rf[3][3].r one level up evaluated to the path
\* (rf, [3, 3]), (r, None)
C11_Witness ==
    /\ pc = "evaluated"
    /\ value = <<[uplevels |-> 1,
                  ref_elements |-> <<[name |-> "rf", idx_list |-> << <<3, 3>> >>],
                                     [name |-> "r", idx_list |-> <<>>]>>]>>

\* ---------------------------------------------------------------------------
\* Properties of the copy specification (SpecCopy)
\* ---------------------------------------------------------------------------
RECURSIVE Mirror(_, _, _)
\* node c is the copy of node o: another node of the same class with the
\* identical compiler, message handler and source location, whose operands
\* and index expressions are copies in turn and whose segments carry the
\* identical name tokens
Mirror(h, c, o) ==
    /\ c # o
    /\ h[c].kind = h[o].kind
    /\ h[c].compiler = h[o].compiler
    /\ h[c].msg = h[o].msg
    /\ h[c].err_ctx = h[o].err_ctx
    /\ h[c].uplevels_to_ref = h[o].uplevels_to_ref
    /\ Len(h[c].op) = Len(h[o].op)
    /\ \A i \in 1..Len(h[o].op) : Mirror(h, h[c].op[i], h[o].op[i])
    /\ Len(h[c].ref_elements) = Len(h[o].ref_elements)
    /\ \A i \in 1..Len(h[o].ref_elements) :
        LET ce == h[c].ref_elements[i]
            oe == h[o].ref_elements[i]
        IN /\ ce.name_token = oe.name_token
           /\ Len(ce.array_suffixes) = Len(oe.array_suffixes)
           /\ \A j \in 1..Len(oe.array_suffixes) :
                Mirror(h, ce.array_suffixes[j], oe.array_suffixes[j])

RECURSIVE SameContents(_, _, _)
\* nodes c and o, and their operands and index expressions in turn, hold
\* equal literal values and widths
SameContents(h, c, o) ==
    /\ h[c].val = h[o].val
    /\ h[c].width = h[o].width
    /\ h[c].cast_width = h[o].cast_width
    /\ h[c].expr_eval_width = h[o].expr_eval_width
    /\ \A i \in 1..Len(h[o].op) : SameContents(h, h[c].op[i], h[o].op[i])
    /\ \A i \in 1..Len(h[o].ref_elements) :
        \A j \in 1..Len(h[o].ref_elements[i].array_suffixes) :
            SameContents(h, h[c].ref_elements[i].array_suffixes[j],
                         h[o].ref_elements[i].array_suffixes[j])

\* the original tree is left as it was: every node, and what get_value()
\* returns for the top node
OriginalUnchanged ==
    /\ \A n \in TreeNodes(heap, Top) : heap'[n] = heap[n]
    /\ get_value(heap', Top).d = get_value(heap, Top).d
    /\ get_value(heap', Top).v = get_value(heap, Top).v

\* C12: the copy's nodes (operands, index expressions) are other objects
\* than the original's while compiler, message handler, source locations
\* and name tokens are the identical objects; the copy starts with equal
\* literal values and widths; and a change of a literal or of a width in the
\* copy leaves every node of the original and its get_value() as they were.
C12_DeepCopyIndependence ==
    /\ [](Len(roots) = 2 =>
            /\ TreeNodes(heap, CopyRoot) \cap TreeNodes(heap, Top) = {}
            /\ Mirror(heap, CopyRoot, Top))
    /\ [][DeepCopyTree => SameContents(heap', roots'[1], Top)]_vars
    /\ [][(SetCopyLiteral \/ SetCopyEvalWidth \/ ResolveCopy)
            => OriginalUnchanged]_vars

\* C12 witness: the original evaluated to its value while the first literal
\* of the copy holds another value and the copy evaluates to another result
C12_Witness ==
    /\ Len(roots) = 2 /\ pc = "evaluated"
    /\ heap[Top].kind = "Add"
    /\ heap[heap[CopyRoot].op[1]].val # heap[heap[Top].op[1]].val
    /\ get_value(heap, Top).v = value[1]
    /\ get_value(heap, CopyRoot).d = NoDiag
    /\ get_value(heap, CopyRoot).v # value[1]

\* ---------------------------------------------------------------------------
\* Properties of the re-resolution specification (SpecAgain)
\* ---------------------------------------------------------------------------
\* the tree as the front end built it: no width resolved, no cast width
\* taken from a width sub-expression yet
AsBuilt ==
    [n \in 1..Len(heap) |->
        [heap[n] EXCEPT
            !.expr_eval_width = None,
            !.cast_width = IF heap[n].kind = "WidthCast" /\ Len(heap[n].op) = 2
                           THEN None ELSE @]]

\* the tree as the first resolve_expr_width() call on the top node left it
AfterFirstResolve == resolve_expr_width(AsBuilt, Top).h

\* C13: after the second resolve_expr_width() on the top node, with any
\* number of get_value() calls since the first, every node has the
\* evaluation width the first call left it with, and get_value() returns
\* what it returns after the first call.
C13_ResolveIdempotent ==
    pc = "reresolved" =>
        /\ \A n \in 1..Len(heap) :
            heap[n].expr_eval_width = AfterFirstResolve[n].expr_eval_width
        /\ get_value(heap, Top).d = get_value(AfterFirstResolve, Top).d
        /\ get_value(heap, Top).v = get_value(AfterFirstResolve, Top).v

\* ---------------------------------------------------------------------------
\* Properties of the parameter specification (SpecParam)
\* ---------------------------------------------------------------------------
Unassigned == heap[PRef].param.expr = 0

\* the diagnostic for a parameter without an expression
UnboundParameter ==
    Fatal("Value for parameter '" \o heap[PRef].param.name
          \o "' was never assigned", heap[PRef].err_ctx)

\* C14: on a ParameterRef whose parameter has no expression each of
\* resolve_expr_width(), get_min_eval_width() and propagate_eval_width(w)
\* ends in the fatal diagnostic that names the parameter, with no node
\* changed; such a ParameterRef never has a width or an operand; and with an
\* assigned parameter that diagnostic is never reported.
C14_UnboundParameter ==
    /\ [][((CallResolveExprWidth \/ CallGetMinEvalWidth \/ CallPropagateEvalWidth
            \/ (ResolveExprWidth /\ Top = PRef)) /\ Unassigned)
          => (pc' = "failed" /\ diag' = UnboundParameter /\ heap' = heap)]_vars
    /\ [](Unassigned => /\ heap[PRef].expr_eval_width = None
                        /\ heap[PRef].op = <<>>)
    /\ [](~Unassigned => diag # UnboundParameter)

\* C14 witness: resolving Add(ParameterRef P, 1) stopped at the unassigned
\* parameter P with the diagnostic naming it
C14_Witness ==
    /\ pc = "failed" /\ heap[Top].kind = "Add" /\ Unassigned
    /\ heap[PRef].param.name = "P"
    /\ diag = Fatal("Value for parameter 'P' was never assigned",
                    heap[PRef].err_ctx)
    /\ heap[Top].expr_eval_width = 1

\* ---------------------------------------------------------------------------
\* Relational nodes, in the structural specification (Spec)
\* ---------------------------------------------------------------------------
\* the relational nodes that resolution has reached
ResolvedRelational ==
    {n \in NodesOf(RelationalKinds) : heap[n].expr_eval_width # None}

\* C15 as stated: a relational node has minimum width 1 and each operand is
\* evaluated at its own self-determined width, whatever the other operand's
\* width.
C15_OperandsSelfDetermined ==
    pc = "resolved" =>
        \A n \in ResolvedRelational :
            /\ get_min_eval_width(heap, n).v = 1
            /\ \A i \in 1..2 :
                heap[heap[n].op[i]].expr_eval_width
                    = get_min_eval_width(heap, heap[n].op[i]).v

\* C15 amended: a relational node has minimum width 1 and ignores the width
\* of its parent; its two operands form one context whose width is the
\* larger of their self-determined widths (at least 1): the node and each
\* operand that shares its parent's context carry that width.
C15_RelationalContext ==
    pc = "resolved" =>
        \A n \in ResolvedRelational :
            LET l == heap[n].op[1]
                r == heap[n].op[2]
                w == Max(1, Max(get_min_eval_width(heap, l).v,
                                get_min_eval_width(heap, r).v))
            IN /\ get_min_eval_width(heap, n).v = 1
               /\ heap[n].expr_eval_width = w
               /\ \A o \in {l, r} :
                    heap[o].kind \in ContextSharingKinds =>
                        heap[o].expr_eval_width = w

\* C15 witness: in the resolved -(Lt(1 at width 1, 0 at width 3)) the Lt
\* node and its left operand have width 3 while the parent has width 1
C15_Witness ==
    /\ pc = "resolved" /\ TopKind = "UnaryMinus"
    /\ heap[Top].expr_eval_width = 1
    /\ OpL.kind = "Lt" /\ OpL.expr_eval_width = 3
    /\ heap[OpL.op[1]].width = 1 /\ heap[OpL.op[1]].expr_eval_width = 3
    /\ heap[OpL.op[2]].width = 3

\* ---------------------------------------------------------------------------
\* BoolNot, in the structural specification (Spec)
\* ---------------------------------------------------------------------------
\* C16: get_value() of a BoolNot node returns false without evaluating the
\* operand: it changes no node and reports nothing, whatever the operand
\* evaluates to and even when evaluating the operand would fail.
C16_BoolNotIgnoresOperand ==
    /\ \A n \in NodesOf({"BoolNot"}) : get_value(heap, n) = Ok(heap, 0)
    /\ (Evaluated /\ TopKind = "BoolNot") => value = <<0>> /\ diag = NoDiag

\* C16 witness: !(1 / 0) evaluated to false with no diagnostic although its
\* operand reports a division by zero when evaluated
C16_Witness ==
    /\ Evaluated /\ TopKind = "BoolNot"
    /\ OpL.kind = "Div" /\ heap[OpL.op[2]].val = 0
    /\ get_value(heap, heap[Top].op[1]).d.kind = "fatal"
    /\ value = <<0>> /\ diag = NoDiag

====
